---- MODULE Spec2Model ----
(***************************************************************************)
(* Generic streaming client of kitex: client/genericclient/stream.go.      *)
(*                                                                         *)
(* The state is the set of generic clients (each with its service info,    *)
(* its generic, and its modeMap), the GenericMethod hook installed on each *)
(* service info, the raw streams handed out by the transport (with the     *)
(* log of the SendMsg / Close / RecvMsg calls that succeeded on them), the *)
(* streaming handles wrapping them, and the position of every goroutine    *)
(* inside a factory call it is running.                                    *)
(***************************************************************************)
EXTENDS Naturals, Sequences, FiniteSets, TLC

VARIABLES
    facade,     \* client id -> the genericServiceClient built for it
    hook,       \* service info -> the client whose construction installed svcInfo.GenericMethod
    streams,    \* raw streams opened so far, with the handle wrapping each
    call,       \* goroutine -> the factory call it is inside, and where
    last,       \* the public call that returned most recently, and what it did
    panicked    \* a Go runtime panic has been raised

vars == <<facade, hook, streams, call, last, panicked>>

----------------------------------------------------------------------------
(* Bounds of the model *)

\* raw streams the transport hands out while goroutines race in the factories
MaxStreams == 1
\* raw streams, and successful raw-stream calls logged per stream, while one
\* goroutine uses the handles
MaxStreamsIO == 1
MaxLogIO == 4
\* raw streams the transport hands out while two clients are in use
MaxStreamsTwo == 1

Threads   == {"t1", "t2"}
FacadeIds == {"A", "B"}
SvcInfos  == {"s1", "s2"}
Methods   == {"m1", "m2"}
Payloads  == {"a", "b"}
\* a Client that is not a *genericServiceClient
NotGeneric == "notGeneric"
\* generic.Generic values: without and with IDL information
Generics  == {"binary", "idl"}

----------------------------------------------------------------------------
(* serviceinfo: streaming modes and the descriptor slots of a generic      *)
(* service info                                                            *)

StreamingNone          == "StreamingNone"
StreamingClient        == "StreamingClient"
StreamingServer        == "StreamingServer"
StreamingBidirectional == "StreamingBidirectional"
StreamingModes == {StreamingClient, StreamingServer, StreamingBidirectional}

GenericMethodKey                       == "GenericMethod"
GenericClientStreamingMethod           == "GenericClientStreamingMethod"
GenericServerStreamingMethod           == "GenericServerStreamingMethod"
GenericBidirectionalStreamingMethod    == "GenericBidirectionalStreamingMethod"

Absent == "absent"
NoErr  == "nil"
\* a nil payload
NoVal  == 0

ErrInvalidClient == "invalid generic client"
ErrNotSupport    == "client not support streaming"
ErrNewClient     == "newClientErr"
ErrOpen          == "openErr"
ErrSend          == "sendErr"
ErrRecv          == "recvErr"
ErrClose         == "closeErr"

----------------------------------------------------------------------------
(* Pure helpers *)

\* generic.HasIDLInfo(g)
HasIDLInfo(g) == g = "idl"

\* g.GetMethod(nil, name) of the generic that carries IDL information: the
\* schema declares m1 only; any other name is a lookup error.
GetMethod(g, name) ==
    IF name = "m1"
    THEN [err |-> NoErr, StreamingMode |-> StreamingServer, Oneway |-> TRUE]
    ELSE [err |-> "unknownMethod", StreamingMode |-> StreamingNone, Oneway |-> FALSE]

\* a key function whose switch lacks the bidirectional case
getGenericStreamingMethodInfoKeyNoBidi(streamingMode) ==
    CASE streamingMode = StreamingClient -> GenericClientStreamingMethod
      [] streamingMode = StreamingServer -> GenericServerStreamingMethod
      [] OTHER                           -> GenericMethodKey

getGenericStreamingMethodInfoKey(streamingMode) ==
    CASE streamingMode = StreamingClient        -> GenericClientStreamingMethod
      [] streamingMode = StreamingServer        -> GenericServerStreamingMethod
      [] streamingMode = StreamingBidirectional -> GenericBidirectionalStreamingMethod
      [] OTHER                                  -> GenericMethodKey

\* sync.Map.Load: <<value, ok>>
Load(mp, name) == <<mp[name], mp[name] # Absent>>

\* a Store where the code has LoadOrStore
StoreAlways(mp, name, mode) == [mp EXCEPT ![name] = mode]

\* a LoadOrStore that fills every unrecorded name of the map
LoadOrStoreAll(mp, name, mode) ==
    [m \in DOMAIN mp |-> IF mp[m] # Absent THEN mp[m] ELSE mode]

\* sync.Map.LoadOrStore as the factories use it: the map afterwards
LoadOrStore(mp, name, mode) ==
    IF mp[name] # Absent THEN mp ELSE [mp EXCEPT ![name] = mode]

\* an empty sync.Map
EmptyMap == [m \in Methods |-> Absent]

\* The closure assigned to svcInfo.GenericMethod by the construction of
\* client fc: it captured that construction's g and mp.
GenericMethod(fc, name) ==
    IF ~HasIDLInfo(facade[fc].g)
    THEN LET ld == Load(facade[fc].modeMap, name)
             key == IF ld[2] THEN getGenericStreamingMethodInfoKey(ld[1])
                             ELSE GenericMethodKey
         IN [key |-> key, oneway |-> FALSE, wrapped |-> FALSE]
    ELSE LET n == GetMethod(facade[fc].g, name)
         IN IF n.err # NoErr
            THEN [key |-> GenericMethodKey, oneway |-> FALSE, wrapped |-> FALSE]
            ELSE [key |-> getGenericStreamingMethodInfoKey(n.StreamingMode),
                  oneway |-> n.Oneway, wrapped |-> TRUE]

\* serviceinfo.ServiceInfo.MethodInfo of a generic service info: the
\* installed GenericMethod hook decides.
MethodInfo(svc, name) == GenericMethod(hook[svc], name)

\* the streaming mode each factory records
NewClientStreamingOp        == "NewClientStreaming"
NewServerStreamingOp        == "NewServerStreaming"
NewBidirectionalStreamingOp == "NewBidirectionalStreaming"
FactoryOps == {NewClientStreamingOp, NewServerStreamingOp, NewBidirectionalStreamingOp}

\* every factory recording the mode of the first one
ModeOfCopied(op) == StreamingClient

ModeOf(op) ==
    CASE op = NewClientStreamingOp        -> StreamingClient
      [] op = NewServerStreamingOp        -> StreamingServer
      [] op = NewBidirectionalStreamingOp -> StreamingBidirectional

KindOf(op) ==
    CASE op = NewClientStreamingOp        -> "client"
      [] op = NewServerStreamingOp        -> "server"
      [] op = NewBidirectionalStreamingOp -> "bidi"

\* genericCli.(*genericServiceClient)
IsGenericServiceClient(cli) == cli \in FacadeIds

\* *generic.Args built by a handle: Method and Request
\* an envelope whose Method was left unset
ArgsNoMethod(method, req) == [ev |-> "send", method |-> "", payload |-> req]
Args(method, req) == [ev |-> "send", method |-> method, payload |-> req]
CloseEv           == [ev |-> "close", method |-> "-", payload |-> "-"]
\* *generic.Result filled by RecvMsg
Result(success)   == [ev |-> "recv", method |-> "-", payload |-> success]
GetSuccess(res)   == res.payload

\* The transport is ordered: the k-th Result it delivers on a stream carries
\* the k-th payload the server produced, named by its position.
Inbound(k) == k
Reads(log) == Len(SelectSeq(log, LAMBDA e : e.ev = "recv"))
NextInbound(log) == Inbound(Reads(log) + 1)

----------------------------------------------------------------------------
(* Records *)

\*   kc: the client client.NewClient returned for it: "none" before the call,
\*       "streaming" when it implements client.Streaming, "plain" when not
NoFacade == [live |-> FALSE, svcInfo |-> "-", g |-> "-", kc |-> "none", kStreams |-> FALSE,
             modeMapNil |-> TRUE, modeMap |-> EmptyMap]

Idle == [pc |-> "idle", op |-> "-", cli |-> "-", method |-> "-", req |-> "-", h |-> 0]

NoDescriptor == [key |-> "-", oneway |-> FALSE, wrapped |-> FALSE]

\* one call made to the transport, and the error it returned
Raw(c, ok, e) == [c |-> c, err |-> IF ok THEN NoErr ELSE e]
RawStream(ok)  == Raw("Stream", ok, ErrOpen)
RawSendMsg(ok) == Raw("SendMsg", ok, ErrSend)
RawClose(ok)   == Raw("Close", ok, ErrClose)
RawRecvMsg(ok) == Raw("RecvMsg", ok, ErrRecv)

\* what a public call returned (h: the handle, err, resp: the payload), and
\* the calls it made to the transport, in order
Ret(op, cli, h, err, resp, raw) ==
    [op |-> op, cli |-> cli, h |-> h, err |-> err, resp |-> resp, raw |-> raw]

Init ==
    /\ facade = [f \in FacadeIds |-> NoFacade]
    /\ hook = [s \in SvcInfos |-> "-"]
    /\ streams = <<>>
    /\ call = [t \in Threads |-> Idle]
    /\ last = Ret("-", "-", 0, NoErr, NoVal, <<>>)
    /\ panicked = FALSE

----------------------------------------------------------------------------
(* Construction *)

\* client ids are handed out in order, and the first client gets the first
\* service info (the second may share it or bring its own)
NextFacade(f) == /\ ~facade[f].live
                 /\ f = "B" => facade["A"].live

\* NewStreamingClientWithServiceInfo(destService, g, svcInfo, opts...)
\*   newClientOk: client.NewClient returned no error
\*   kcStreams:   the client it returned implements client.Streaming
NewStreamingClientWithServiceInfo(f, svc, g, newClientOk, kcStreams) ==
    /\ ~panicked
    /\ NextFacade(f)
    /\ f = "A" => svc = "s1"
    /\ IF ~newClientOk
       THEN /\ last' = Ret("NewStreamingClient", "-", 0, ErrNewClient, NoVal, <<>>)
            /\ UNCHANGED <<facade, hook, panicked>>
       ELSE IF ~kcStreams
       THEN \* kc.(client.Streaming) without the comma-ok form
            /\ panicked' = TRUE
            /\ facade' = [facade EXCEPT ![f].kc = "plain"]
            /\ UNCHANGED <<hook, last>>
       ELSE /\ facade' = [facade EXCEPT ![f] =
                            [live |-> TRUE, svcInfo |-> svc, g |-> g, kc |-> "streaming",
                             kStreams |-> TRUE,
                             modeMapNil |-> HasIDLInfo(g), modeMap |-> EmptyMap]]
            /\ hook' = [hook EXCEPT ![svc] = f]
            /\ last' = Ret("NewStreamingClient", f, 0, NoErr, NoVal, <<>>)
            /\ UNCHANGED panicked
    /\ UNCHANGED <<streams, call>>

----------------------------------------------------------------------------
(* Raw streams and handles *)

\* a raw stream as getStream returns it: nothing wraps it yet.
\*   method:   the name the stream was opened for
\*   log:      the SendMsg / Close / RecvMsg calls that succeeded on it, in order
\*   owner:    "factory" while a factory call holds it, "handle" once a handle
\*             wrapping it was returned, "dropped" when the factory returned an
\*             error after acquiring it
\*   kind, hmethod, methodInfo: the fields of the handle wrapping it
\*   passed:   the payloads the caller handed over in calls whose send succeeded
\*   returned: the payloads handed back to the caller
NewStream(method) ==
    [method |-> method, log |-> <<>>, owner |-> "factory", kind |-> "-",
     hmethod |-> "-", methodInfo |-> NoDescriptor, passed |-> <<>>, returned |-> <<>>]

Handles(kinds) == {h \in 1..Len(streams) : /\ streams[h].owner = "handle"
                                           /\ streams[h].kind \in kinds}

\* the values a caller may pass as the generic client
Clients == {f \in FacadeIds : facade[f].live} \cup {NotGeneric}

----------------------------------------------------------------------------
(* The three factories, step by step *)

\* a factory returning nil, nil where the code returns the error
InvalidClientSilent(op, cli) == Ret(op, cli, 0, NoErr, NoVal, <<>>)

\* the return of a factory whose type assertion failed
InvalidClient(op, cli) == Ret(op, cli, 0, ErrInvalidClient, NoVal, <<>>)

\* a factory that leaves the recording to a later, successful step
RecordNever(cli, method, op) == facade

\* a factory that records in every client, with or without IDL information
RecordAlways(cli, method, op) ==
    [facade EXCEPT ![cli].modeMap = LoadOrStore(facade[cli].modeMap, method, ModeOf(op))]

\* if gCli.modeMap != nil { gCli.modeMap.LoadOrStore(method, mode) }: the
\* clients afterwards
Record(cli, method, op) ==
    IF facade[cli].modeMapNil THEN facade
    ELSE [facade EXCEPT ![cli].modeMap =
             LoadOrStore(facade[cli].modeMap, method, ModeOf(op))]

\* NewClientStreaming / NewServerStreaming / NewBidirectionalStreaming up to
\* the call of getStream: the type assertion, then the LoadOrStore.
FactoryEnter(t, op, cli, method, req) ==
    /\ ~panicked
    /\ call[t].pc = "idle"
    /\ cli \in Clients
    /\ req = "-" <=> op # NewServerStreamingOp
    /\ IF ~IsGenericServiceClient(cli)
       THEN /\ last' = InvalidClient(op, cli)
            /\ UNCHANGED <<facade, call>>
       ELSE /\ facade' = Record(cli, method, op)
            /\ call' = [call EXCEPT ![t] = [pc |-> "getStream", op |-> op, cli |-> cli,
                                            method |-> method, req |-> req, h |-> 0]]
            /\ UNCHANGED last
    /\ UNCHANGED <<hook, streams, panicked>>

\* getStream, and the factory's return when it failed
\*   openOk: streamClient.Stream returned no error
GetStream(t, openOk, maxStreams) ==
    LET c == call[t] IN
    /\ ~panicked
    /\ c.pc = "getStream"
    /\ IF ~facade[c.cli].kStreams
       THEN /\ last' = Ret(c.op, c.cli, 0, ErrNotSupport, NoVal, <<>>)
            /\ call' = [call EXCEPT ![t] = Idle]
            /\ UNCHANGED streams
       ELSE IF ~openOk
       THEN /\ last' = Ret(c.op, c.cli, 0, ErrOpen, NoVal, <<RawStream(FALSE)>>)
            /\ call' = [call EXCEPT ![t] = Idle]
            /\ UNCHANGED streams
       ELSE /\ Len(streams) < maxStreams
            /\ streams' = Append(streams, NewStream(c.method))
            /\ call' = [call EXCEPT ![t].pc = "wrap", ![t].h = Len(streams) + 1]
            /\ UNCHANGED last
    /\ UNCHANGED <<facade, hook, panicked>>

\* NewServerStreaming returning the handle as the other two factories do,
\* without the send and the close
WrapReturnsAtOnce(t) ==
    LET c  == call[t]
        mi == MethodInfo(facade[c.cli].svcInfo, c.method)
    IN
    /\ ~panicked
    /\ c.pc = "wrap"
    /\ streams' = [streams EXCEPT ![c.h].kind = KindOf(c.op),
                                  ![c.h].hmethod = IF c.op = NewServerStreamingOp
                                                   THEN "-" ELSE c.method,
                                  ![c.h].methodInfo = mi,
                                  ![c.h].owner = "handle"]
    /\ call' = [call EXCEPT ![t] = Idle]
    /\ last' = Ret(c.op, c.cli, c.h, NoErr, NoVal, <<RawStream(TRUE)>>)
    /\ UNCHANGED <<facade, hook, panicked>>

\* gCli.svcInfo.MethodInfo(method) and the handle built around the stream.
\* NewClientStreaming and NewBidirectionalStreaming return it; NewServerStreaming
\* goes on to send the request.
Wrap(t) ==
    LET c  == call[t]
        mi == MethodInfo(facade[c.cli].svcInfo, c.method)
    IN
    /\ ~panicked
    /\ c.pc = "wrap"
    /\ IF c.op = NewServerStreamingOp
       THEN /\ streams' = [streams EXCEPT ![c.h].kind = "server",
                                          ![c.h].methodInfo = mi]
            /\ call' = [call EXCEPT ![t].pc = "sendMsg"]
            /\ UNCHANGED last
       ELSE /\ streams' = [streams EXCEPT ![c.h].kind = KindOf(c.op),
                                          ![c.h].hmethod = c.method,
                                          ![c.h].methodInfo = mi,
                                          ![c.h].owner = "handle"]
            /\ call' = [call EXCEPT ![t] = Idle]
            /\ last' = Ret(c.op, c.cli, c.h, NoErr, NoVal, <<RawStream(TRUE)>>)
    /\ UNCHANGED <<facade, hook, panicked>>

\* NewServerStreaming: ss.Stream.SendMsg(_args)
ServerSetupSend(t, sendOk) ==
    LET c == call[t] IN
    /\ ~panicked
    /\ c.pc = "sendMsg"
    /\ IF sendOk
       THEN /\ streams' = [streams EXCEPT ![c.h].log = Append(@, Args(c.method, c.req)),
                                          ![c.h].passed = Append(@, c.req)]
            /\ call' = [call EXCEPT ![t].pc = "close"]
            /\ UNCHANGED last
       ELSE /\ streams' = [streams EXCEPT ![c.h].owner = "dropped"]
            /\ call' = [call EXCEPT ![t] = Idle]
            /\ last' = Ret(c.op, c.cli, 0, ErrSend, NoVal, <<RawStream(TRUE), RawSendMsg(FALSE)>>)
    /\ UNCHANGED <<facade, hook, panicked>>

\* NewServerStreaming: ss.Stream.Close(), then the return of ss
ServerSetupClose(t, closeOk) ==
    LET c == call[t] IN
    /\ ~panicked
    /\ c.pc = "close"
    /\ IF closeOk
       THEN /\ streams' = [streams EXCEPT ![c.h].log = Append(@, CloseEv),
                                          ![c.h].owner = "handle"]
            /\ last' = Ret(c.op, c.cli, c.h, NoErr, NoVal,
                              <<RawStream(TRUE), RawSendMsg(TRUE), RawClose(TRUE)>>)
       ELSE /\ streams' = [streams EXCEPT ![c.h].owner = "dropped"]
            /\ last' = Ret(c.op, c.cli, 0, ErrClose, NoVal,
                              <<RawStream(TRUE), RawSendMsg(TRUE), RawClose(FALSE)>>)
    /\ call' = [call EXCEPT ![t] = Idle]
    /\ UNCHANGED <<facade, hook, panicked>>

----------------------------------------------------------------------------
(* Operations of the handles.  A handle is used by one goroutine at a     *)
(* time, so each operation is one step; the transport decides whether a   *)
(* raw call succeeds and what a read delivers.                            *)

\* a Send that drops the error of SendMsg
ClientSendSwallowsErr(h, req, sendOk, maxLog) ==
    /\ ~panicked
    /\ h \in Handles({"client"})
    /\ IF sendOk
       THEN /\ Len(streams[h].log) < maxLog
            /\ streams' = [streams EXCEPT ![h].log = Append(@, Args(streams[h].hmethod, req)),
                                          ![h].passed = Append(@, req)]
            /\ last' = Ret("Send", "-", h, NoErr, NoVal, <<RawSendMsg(TRUE)>>)
       ELSE /\ last' = Ret("Send", "-", h, NoErr, NoVal, <<RawSendMsg(FALSE)>>)
            /\ UNCHANGED streams
    /\ UNCHANGED <<facade, hook, call, panicked>>

\* deprecatedClientStreamingClient.Send
ClientSend(h, req, sendOk, maxLog) ==
    /\ ~panicked
    /\ h \in Handles({"client"})
    /\ IF sendOk
       THEN /\ Len(streams[h].log) < maxLog
            /\ streams' = [streams EXCEPT ![h].log = Append(@, Args(streams[h].hmethod, req)),
                                          ![h].passed = Append(@, req)]
            /\ last' = Ret("Send", "-", h, NoErr, NoVal, <<RawSendMsg(TRUE)>>)
       ELSE /\ last' = Ret("Send", "-", h, ErrSend, NoVal, <<RawSendMsg(FALSE)>>)
            /\ UNCHANGED streams
    /\ UNCHANGED <<facade, hook, call, panicked>>

\* CloseAndRecv going on to RecvMsg although Close failed
CloseAndRecvIgnoresCloseErr(log, closeOk, recvOk) ==
    LET res == Result(NextInbound(log))
        log1 == IF closeOk THEN Append(log, CloseEv) ELSE log
    IN IF ~recvOk
       THEN [err |-> ErrRecv, resp |-> NoVal, raw |-> <<RawClose(closeOk), RawRecvMsg(FALSE)>>,
             log |-> log1]
       ELSE [err |-> NoErr, resp |-> GetSuccess(res),
             raw |-> <<RawClose(closeOk), RawRecvMsg(TRUE)>>, log |-> Append(log1, res)]

\* CloseAndRecv reading the result before it closes the send side
CloseAndRecvReadsFirst(log, closeOk, recvOk) ==
    LET res == Result(NextInbound(log)) IN
    IF ~recvOk
    THEN [err |-> ErrRecv, resp |-> NoVal, raw |-> <<RawRecvMsg(FALSE)>>, log |-> log]
    ELSE IF ~closeOk
    THEN [err |-> ErrClose, resp |-> NoVal, raw |-> <<RawRecvMsg(TRUE), RawClose(FALSE)>>,
          log |-> Append(log, res)]
    ELSE [err |-> NoErr, resp |-> GetSuccess(res),
          raw |-> <<RawRecvMsg(TRUE), RawClose(TRUE)>>,
          log |-> Append(Append(log, res), CloseEv)]

\* CloseAndRecv reading again after the result, to drain the stream
CloseAndRecvReadsTwice(log, closeOk, recvOk) ==
    IF ~closeOk
    THEN [err |-> ErrClose, resp |-> NoVal, raw |-> <<RawClose(FALSE)>>, log |-> log]
    ELSE IF ~recvOk
    THEN [err |-> ErrRecv, resp |-> NoVal, raw |-> <<RawClose(TRUE), RawRecvMsg(FALSE)>>,
          log |-> Append(log, CloseEv)]
    ELSE LET res  == Result(NextInbound(log))
             log2 == Append(Append(log, CloseEv), res)
         IN [err |-> NoErr, resp |-> GetSuccess(res),
             raw |-> <<RawClose(TRUE), RawRecvMsg(TRUE), RawRecvMsg(TRUE)>>,
             log |-> Append(log2, Result(NextInbound(log2)))]

\* The body of deprecatedClientStreamingClient.CloseAndRecv on a stream with
\* the given log: what it returns, the raw calls it makes, the log afterwards.
\*   closeOk, recvOk: the outcomes of Stream.Close and Stream.RecvMsg
CloseAndRecvBody(log, closeOk, recvOk) ==
    IF ~closeOk
    THEN [err |-> ErrClose, resp |-> NoVal, raw |-> <<RawClose(FALSE)>>, log |-> log]
    ELSE IF ~recvOk
    THEN [err |-> ErrRecv, resp |-> NoVal, raw |-> <<RawClose(TRUE), RawRecvMsg(FALSE)>>,
          log |-> Append(log, CloseEv)]
    ELSE LET res == Result(NextInbound(log))
         IN [err |-> NoErr, resp |-> GetSuccess(res),
             raw |-> <<RawClose(TRUE), RawRecvMsg(TRUE)>>,
             log |-> Append(Append(log, CloseEv), res)]

\* deprecatedClientStreamingClient.CloseAndRecv
CloseAndRecv(h, closeOk, recvOk, maxLog) ==
    /\ ~panicked
    /\ h \in Handles({"client"})
    /\ LET out == CloseAndRecvBody(streams[h].log, closeOk, recvOk) IN
       /\ Len(out.log) <= maxLog
       /\ streams' = [streams EXCEPT
                        ![h].log = out.log,
                        ![h].returned = IF out.err = NoErr THEN Append(@, out.resp) ELSE @]
       /\ last' = Ret("CloseAndRecv", "-", h, out.err, out.resp, out.raw)
    /\ UNCHANGED <<facade, hook, call, panicked>>

\* a Recv that reads once more after a failed read
ServerRecvRetries(h, recvOk, maxLog) ==
    LET r == NextInbound(streams[h].log) IN
    /\ ~panicked
    /\ h \in Handles({"server"})
    /\ Len(streams[h].log) < maxLog
    /\ streams' = [streams EXCEPT
                     ![h].log = Append(@, Result(r)),
                     ![h].returned = Append(@, GetSuccess(Result(r)))]
    /\ last' = Ret("Recv", "-", h, NoErr, GetSuccess(Result(r)),
                   IF recvOk THEN <<RawRecvMsg(TRUE)>>
                   ELSE <<RawRecvMsg(FALSE), RawRecvMsg(TRUE)>>)
    /\ UNCHANGED <<facade, hook, call, panicked>>

\* deprecatedServerStreamingClient.Recv
ServerRecv(h, recvOk, maxLog) ==
    LET r == NextInbound(streams[h].log) IN
    /\ ~panicked
    /\ h \in Handles({"server"})
    /\ IF ~recvOk
       THEN /\ last' = Ret("Recv", "-", h, ErrRecv, NoVal, <<RawRecvMsg(FALSE)>>)
            /\ UNCHANGED streams
       ELSE /\ Len(streams[h].log) < maxLog
            /\ streams' = [streams EXCEPT
                             ![h].log = Append(@, Result(r)),
                             ![h].returned = Append(@, GetSuccess(Result(r)))]
            /\ last' = Ret("Recv", "-", h, NoErr, GetSuccess(Result(r)), <<RawRecvMsg(TRUE)>>)
    /\ UNCHANGED <<facade, hook, call, panicked>>

\* deprecatedBidirectionalStreamingClient.Send
BidiSend(h, req, sendOk, maxLog) ==
    /\ ~panicked
    /\ h \in Handles({"bidi"})
    /\ IF sendOk
       THEN /\ Len(streams[h].log) < maxLog
            /\ streams' = [streams EXCEPT ![h].log = Append(@, Args(streams[h].hmethod, req)),
                                          ![h].passed = Append(@, req)]
            /\ last' = Ret("Send", "-", h, NoErr, NoVal, <<RawSendMsg(TRUE)>>)
       ELSE /\ last' = Ret("Send", "-", h, ErrSend, NoVal, <<RawSendMsg(FALSE)>>)
            /\ UNCHANGED streams
    /\ UNCHANGED <<facade, hook, call, panicked>>

\* Recv reading until it has a second Result and returning that one
BidiRecvSkips(h, recvOk, maxLog) ==
    LET r1 == Result(NextInbound(streams[h].log))
        r2 == Result(NextInbound(Append(streams[h].log, r1)))
    IN
    /\ ~panicked
    /\ h \in Handles({"bidi"})
    /\ IF ~recvOk
       THEN /\ last' = Ret("Recv", "-", h, ErrRecv, NoVal, <<RawRecvMsg(FALSE)>>)
            /\ UNCHANGED streams
       ELSE /\ Len(streams[h].log) + 1 < maxLog
            /\ streams' = [streams EXCEPT
                             ![h].log = Append(Append(@, r1), r2),
                             ![h].returned = Append(@, GetSuccess(r2))]
            /\ last' = Ret("Recv", "-", h, NoErr, GetSuccess(r2),
                           <<RawRecvMsg(TRUE), RawRecvMsg(TRUE)>>)
    /\ UNCHANGED <<facade, hook, call, panicked>>

\* deprecatedBidirectionalStreamingClient.Recv
BidiRecv(h, recvOk, maxLog) ==
    LET r == NextInbound(streams[h].log) IN
    /\ ~panicked
    /\ h \in Handles({"bidi"})
    /\ IF ~recvOk
       THEN /\ last' = Ret("Recv", "-", h, ErrRecv, NoVal, <<RawRecvMsg(FALSE)>>)
            /\ UNCHANGED streams
       ELSE /\ Len(streams[h].log) < maxLog
            /\ streams' = [streams EXCEPT
                             ![h].log = Append(@, Result(r)),
                             ![h].returned = Append(@, GetSuccess(Result(r)))]
            /\ last' = Ret("Recv", "-", h, NoErr, GetSuccess(Result(r)), <<RawRecvMsg(TRUE)>>)
    /\ UNCHANGED <<facade, hook, call, panicked>>

----------------------------------------------------------------------------
(* Specifications *)

Construct(ids) ==
    \E f \in ids, svc \in SvcInfos, g \in Generics, newClientOk, kcStreams \in BOOLEAN :
        NewStreamingClientWithServiceInfo(f, svc, g, newClientOk, kcStreams)

Factory(threads, maxStreams) ==
    \E t \in threads :
        \/ \E op \in FactoryOps, cli \in FacadeIds \cup {NotGeneric}, method \in Methods,
              req \in Payloads \cup {"-"} : FactoryEnter(t, op, cli, method, req)
        \/ \E openOk \in BOOLEAN : GetStream(t, openOk, maxStreams)
        \/ Wrap(t)
        \/ \E sendOk \in BOOLEAN : ServerSetupSend(t, sendOk)
        \/ \E closeOk \in BOOLEAN : ServerSetupClose(t, closeOk)

HandleOps(maxStreams, maxLog) ==
    \/ \E h \in 1..maxStreams, req \in Payloads, ok \in BOOLEAN : ClientSend(h, req, ok, maxLog)
    \/ \E h \in 1..maxStreams, ok, recvOk \in BOOLEAN : CloseAndRecv(h, ok, recvOk, maxLog)
    \/ \E h \in 1..maxStreams, ok \in BOOLEAN : ServerRecv(h, ok, maxLog)
    \/ \E h \in 1..maxStreams, req \in Payloads, ok \in BOOLEAN : BidiSend(h, req, ok, maxLog)
    \/ \E h \in 1..maxStreams, ok \in BOOLEAN : BidiRecv(h, ok, maxLog)

\* goroutines calling the factories of one client concurrently
Next == Construct({"A"}) \/ Factory(Threads, MaxStreams)

Spec == Init /\ [][Next]_vars

\* one goroutine, one call at a time, using the handles it gets
NextIO == Construct({"A"}) \/ Factory({"t1"}, MaxStreamsIO) \/ HandleOps(MaxStreamsIO, MaxLogIO)

SpecIO == Init /\ [][NextIO]_vars

\* one goroutine and two clients, which may have been given the same svcInfo
NextTwo == Construct(FacadeIds) \/ Factory({"t1"}, MaxStreamsTwo)

SpecTwo == Init /\ [][NextTwo]_vars

----------------------------------------------------------------------------
(* Claims *)

Closes(log) == Len(SelectSeq(log, LAMBDA e : e.ev = "close"))
Sends(log)  == SelectSeq(log, LAMBDA e : e.ev = "send")

\* the clients built without IDL information
SchemaAbsent == {f \in FacadeIds : facade[f].live /\ ~HasIDLInfo(facade[f].g)}

\* the descriptor slot of a recorded mode
SlotOf(mode) ==
    CASE mode = StreamingClient        -> GenericClientStreamingMethod
      [] mode = StreamingServer        -> GenericServerStreamingMethod
      [] mode = StreamingBidirectional -> GenericBidirectionalStreamingMethod

\* the streaming shape a caller asks for by choosing a factory
Requested(op) ==
    CASE op = "NewClientStreaming"        -> "StreamingClient"
      [] op = "NewServerStreaming"        -> "StreamingServer"
      [] op = "NewBidirectionalStreaming" -> "StreamingBidirectional"

\* C1: in a client built without IDL information, once a mode is recorded
\* for a method name no step changes it, and the client's GenericMethod hook
\* resolves the name to the descriptor slot of that mode from then on.
C1_RecordedModeIsStable ==
    [][\A f \in SchemaAbsent, m \in Methods :
          facade[f].modeMap[m] # Absent =>
              /\ facade'[f].modeMap[m] = facade[f].modeMap[m]
              /\ GenericMethod(f, m).key = SlotOf(facade[f].modeMap[m])
              /\ GenericMethod(f, m)'.key = SlotOf(facade[f].modeMap[m])]_vars

\* C1 witness: a factory of another shape has gone past its LoadOrStore for a
\* name whose mode was recorded before.
C1_Witness ==
    \E t \in Threads :
        /\ call[t].pc = "getStream"
        /\ call[t].cli \in SchemaAbsent
        /\ facade[call[t].cli].modeMap[call[t].method] \notin {Absent, Requested(call[t].op)}

\* the factory calls in flight for method m of client f
InFlight(f, m) == {t \in Threads : call[t].pc # "idle" /\ call[t].cli = f /\ call[t].method = m}

\* C2: when goroutines race in first-time factory calls for one name, the
\* name goes from unrecorded to a single recorded mode in the step of one of
\* them, the mode is the one that goroutine's factory requests, it never
\* changes afterwards, every call in flight for the name finds it recorded,
\* and every handle built for the name captured the descriptor of that mode.
C2_OneRequestedModeWins ==
    /\ [][\A f \in SchemaAbsent, m \in Methods :
             facade'[f].modeMap[m] # facade[f].modeMap[m] =>
                 /\ facade[f].modeMap[m] = Absent
                 /\ \E t \in Threads :
                       /\ call[t].pc = "idle"
                       /\ call'[t].pc = "getStream"
                       /\ call'[t].cli = f
                       /\ call'[t].method = m
                       /\ facade'[f].modeMap[m] = Requested(call'[t].op)]_vars
    /\ [](\A f \in SchemaAbsent, m \in Methods :
             /\ InFlight(f, m) # {} => facade[f].modeMap[m] \in StreamingModes
             /\ \A t \in InFlight(f, m) :
                   call[t].h # 0 /\ streams[call[t].h].kind # "-" =>
                       streams[call[t].h].methodInfo.key = SlotOf(facade[f].modeMap[m]))

\* C2 witness: two goroutines are inside factories of different shapes for the
\* same name of the same client, and one of them has resolved the descriptor.
C2_Witness ==
    \E t1, t2 \in Threads :
        /\ t1 # t2
        /\ call[t1].pc = "sendMsg"
        /\ call[t2].pc = "getStream"
        /\ call[t1].cli = call[t2].cli
        /\ call[t1].cli \in SchemaAbsent
        /\ call[t1].method = call[t2].method
        /\ call[t1].op # call[t2].op
        /\ facade[call[t1].cli].modeMap[call[t1].method] = Requested(call[t2].op)

----------------------------------------------------------------------------
(* Claims about the handles *)

\* the Request Envelope {m, p} and the events of a raw stream, as the
\* transport sees them
Envelope(m, p) == [ev |-> "send", method |-> m, payload |-> p]
EndOfSend      == [ev |-> "close", method |-> "-", payload |-> "-"]
Delivery(k)    == [ev |-> "recv", method |-> "-", payload |-> k]

\* the raw calls of one kind a public call made
RawCalls(raw, c) == SelectSeq(raw, LAMBDA x : x.c = c)

\* C3: on a client-streaming handle for method m the raw stream carries one
\* Request Envelope {m, p} per successful Send, in call order; and after
\* Send(p1) ... Send(pn) and a first CloseAndRecv that succeeded the raw stream
\* has seen exactly those n envelopes, then the end-of-send, then one read,
\* whose payload CloseAndRecv returned.
C3_ClientStreamingSequence ==
    \A h \in Handles({"client"}) :
        LET st == streams[h] IN
        /\ Sends(st.log) = [i \in 1..Len(st.passed) |-> Envelope(st.method, st.passed[i])]
        /\ (last.op = "CloseAndRecv" /\ last.h = h /\ last.err = NoErr /\ Closes(st.log) = 1) =>
              /\ st.log = Sends(st.log) \o <<EndOfSend, Delivery(1)>>
              /\ last.resp = 1
              /\ st.returned = <<1>>
              /\ [i \in 1..Len(last.raw) |-> last.raw[i].c] = <<"Close", "RecvMsg">>

\* C3 witness: Send(a); Send(b); CloseAndRecv() with two different payloads.
C3_Witness ==
    \E h \in Handles({"client"}) :
        /\ last.op = "CloseAndRecv" /\ last.h = h /\ last.err = NoErr
        /\ Closes(streams[h].log) = 1
        /\ Len(streams[h].passed) = 2
        /\ streams[h].passed[1] # streams[h].passed[2]

\* C4: a server-streaming handle that NewServerStreaming(m, r) returned has a
\* raw stream whose log starts with the one Request Envelope {m, r} followed
\* by the end-of-send, and holds nothing but reads after them; a stream the
\* factory has not returned in a handle has no read on it.
C4_ServerStreamingSetup ==
    /\ \A t \in Threads :
          call[t].pc = "close" => streams[call[t].h].log = <<Envelope(call[t].method, call[t].req)>>
    /\ \A h \in 1..Len(streams) :
          LET st == streams[h] IN
          st.kind = "server" =>
              /\ st.owner # "handle" => Reads(st.log) = 0
              /\ st.owner = "handle" =>
                    /\ Len(st.log) >= 2
                    /\ Len(st.passed) = 1
                    /\ st.log[1] = Envelope(st.method, st.passed[1])
                    /\ st.log[2] = EndOfSend
                    /\ \A i \in 3..Len(st.log) : st.log[i].ev = "recv"
              /\ (last.op = "NewServerStreaming" /\ last.h = h) =>
                    /\ st.owner = "handle"
                    /\ Len(st.log) = 2

\* C4 witness: a Recv has read from the stream of a returned server-streaming
\* handle.
C4_Witness ==
    \E h \in Handles({"server"}) : Reads(streams[h].log) >= 1 /\ last.op = "Recv"

\* C5: on a bidirectional handle the payloads Recv has returned so far are the
\* first payloads the transport produced, in order, however many Sends lie in
\* between; a successful Recv makes one read and returns the payload it read.
C5_BidiRecvInOrder ==
    \A h \in Handles({"bidi"}) :
        LET st == streams[h] IN
        /\ st.returned = [i \in 1..Reads(st.log) |-> Inbound(i)]
        /\ SelectSeq(st.log, LAMBDA e : e.ev = "recv") =
              [i \in 1..Reads(st.log) |-> Delivery(i)]
        /\ Sends(st.log) = [i \in 1..Len(st.passed) |-> Envelope(st.method, st.passed[i])]
        /\ (last.op = "Recv" /\ last.h = h /\ last.err = NoErr) =>
              /\ Reads(st.log) >= 1
              /\ st.log[Len(st.log)] = Delivery(Reads(st.log))
              /\ last.resp = Reads(st.log)
              /\ last.raw = <<[c |-> "RecvMsg", err |-> NoErr]>>

\* C5 witness: Send, Recv, Send, Recv on one bidirectional handle.
C5_Witness ==
    \E h \in Handles({"bidi"}) :
        /\ Len(streams[h].log) = 4
        /\ [i \in 1..4 |-> streams[h].log[i].ev] = <<"send", "recv", "send", "recv">>
        /\ streams[h].returned = <<1, 2>>

\* C6 (as claimed): every raw stream is closed at most once, and a stream the
\* factory acquired and then gave up on an error path has been closed once.
C6_ReleasedExactlyOnce ==
    \A h \in 1..Len(streams) :
        /\ Closes(streams[h].log) <= 1
        /\ streams[h].owner = "dropped" => Closes(streams[h].log) = 1

\* C7: a CloseAndRecv whose Stream.Close returned an error returns nil and
\* that error, and makes no RecvMsg call.
C7_NoRecvAfterFailedClose ==
    (/\ last.op = "CloseAndRecv"
     /\ last.raw # <<>>
     /\ last.raw[1] = [c |-> "Close", err |-> ErrClose])
    => /\ last.err = ErrClose
       /\ last.resp = NoVal
       /\ last.raw = <<[c |-> "Close", err |-> ErrClose]>>

\* C7 witness: CloseAndRecv has just failed in its close step on a stream that
\* carries a sent request.
C7_Witness ==
    /\ last.op = "CloseAndRecv"
    /\ last.err = ErrClose
    /\ Len(streams[last.h].log) >= 1

\* C8: a factory called with a client that is not a *genericServiceClient
\* returns the invalid-client error and no handle, makes no call to the
\* transport, and its step changes no modeMap, stream or call in progress.
C8_InvalidClient ==
    /\ [](last.cli = NotGeneric =>
             /\ last.op \in FactoryOps
             /\ last.err = "invalid generic client"
             /\ last.h = 0
             /\ last.raw = <<>>)
    /\ [][(last'.cli = NotGeneric /\ last' # last) =>
             UNCHANGED <<facade, hook, streams, call, panicked>>]_vars

\* C8 witness: the invalid call comes when a mode is recorded and a stream is
\* open.
C8_Witness ==
    /\ last.cli = NotGeneric
    /\ Len(streams) >= 1
    /\ \E m \in Methods : facade["A"].modeMap[m] # Absent

\* C9 (as claimed): a client-streaming handle reads at most one Result
\* Envelope over its lifetime, and exactly one once CloseAndRecv succeeded.
C9_AtMostOneReadPerHandle ==
    \A h \in Handles({"client"}) :
        /\ Reads(streams[h].log) <= 1
        /\ streams[h].returned # <<>> => Reads(streams[h].log) = 1

\* C9 (amended): every CloseAndRecv invocation makes at most one read,
\* exactly one when it succeeds, right after its own end-of-send; Send makes
\* none.  So the reads on a handle number the CloseAndRecv calls that
\* succeeded.
C9_OneReadPerCloseAndRecv ==
    \A h \in Handles({"client"}) :
        LET st == streams[h] IN
        /\ Reads(st.log) = Len(st.returned)
        /\ Reads(st.log) <= Closes(st.log)
        /\ \A i \in 1..Len(st.log) :
              st.log[i].ev = "recv" => i > 1 /\ st.log[i-1].ev = "close"
        /\ (last.h = h /\ last.op = "CloseAndRecv") =>
              /\ Len(RawCalls(last.raw, "RecvMsg")) <= 1
              /\ last.err = NoErr => Len(RawCalls(last.raw, "RecvMsg")) = 1
        /\ (last.h = h /\ last.op = "Send") => RawCalls(last.raw, "RecvMsg") = <<>>

\* C9 witness: CloseAndRecv has succeeded twice on one handle.
C9_Witness ==
    \E h \in Handles({"client"}) :
        /\ Reads(streams[h].log) = 2
        /\ last.op = "CloseAndRecv" /\ last.err = NoErr

\* C10 (as claimed): no call of the public surface panics.
C10_NoPanic == ~panicked

\* C11 (as claimed): a transport client that does not implement
\* client.Streaming gives a client whose factory calls fail: the program has
\* not aborted, the client exists, and every factory call on it returned
\* "client not support streaming" with no handle and no call to the transport.
C11_UnsupportedIsAnError ==
    \A f \in FacadeIds :
        facade[f].kc = "plain" =>
            /\ ~panicked
            /\ facade[f].live
            /\ (last.cli = f /\ last.op \in FactoryOps) =>
                  /\ last.err = ErrNotSupport
                  /\ last.h = 0
                  /\ last.raw = <<>>

\* the descriptor the closure of client f gives for a name, from f's
\* registry alone
FromRegistry(f, m) ==
    LET mode == facade[f].modeMap[m] IN
    [key |-> IF mode = Absent THEN GenericMethodKey ELSE SlotOf(mode),
     oneway |-> FALSE, wrapped |-> FALSE]

\* C12: in a client built without IDL information, the hook the client
\* installed resolves every name from the registry alone: the default unary
\* descriptor while the name is unrecorded, else the slot of the recorded mode,
\* and a recorded mode is one of the three streaming modes.
C12_ResolveReadsRegistry ==
    \A f \in SchemaAbsent : \A m \in Methods :
        /\ facade[f].modeMap[m] \in {Absent, StreamingClient, StreamingServer, StreamingBidirectional}
        /\ GenericMethod(f, m) = FromRegistry(f, m)

\* C12 witness: one registry holds a bidirectional entry for one name and
\* nothing for the other.
C12_Witness ==
    \E f \in SchemaAbsent :
        /\ facade[f].modeMap["m1"] = StreamingBidirectional
        /\ facade[f].modeMap["m2"] = Absent
        /\ GenericMethod(f, "m1").key = GenericBidirectionalStreamingMethod
        /\ GenericMethod(f, "m2").key = GenericMethodKey

\* the clients that were built
Live == {f \in FacadeIds : facade[f].live}

\* C13 (as claimed): every client resolves names through its own closure,
\* so from its own registry or schema, whichever clients were built from the
\* same svcInfo; and a factory call on one client leaves what every other
\* client resolves as it was.
C13_OwnRegistry ==
    /\ [](\A f \in Live : \A m \in Methods :
            MethodInfo(facade[f].svcInfo, m) = GenericMethod(f, m))
    /\ [][\A t \in Threads :
            (call[t].pc = "idle" /\ call'[t].pc = "getStream") =>
                \A f \in Live \ {call'[t].cli} : \A m \in Methods :
                    MethodInfo(facade[f].svcInfo, m) = MethodInfo(facade[f].svcInfo, m)']_vars

\* C14: every Request Envelope a raw stream has carried, written by the
\* Send of a client-streaming or bidirectional handle or by the setup of
\* NewServerStreaming, has as method the name the factory was called with
\* (the one the stream was opened under) and as request the payload the
\* caller passed, one envelope per payload and in the order of the calls.
C14_EnvelopeCarriesNameAndPayload ==
    \A h \in 1..Len(streams) :
        LET st == streams[h] IN
        /\ Len(Sends(st.log)) = Len(st.passed)
        /\ \A i \in 1..Len(st.passed) :
              Sends(st.log)[i] = Envelope(st.method, st.passed[i])
        /\ st.kind = "server" => Len(st.passed) <= 1

\* C14 witness: a bidirectional handle for m2 has written two envelopes with
\* different payloads.
C14_Witness ==
    \E h \in Handles({"bidi"}) :
        /\ streams[h].method = "m2"
        /\ Len(Sends(streams[h].log)) = 2
        /\ Sends(streams[h].log)[1].payload # Sends(streams[h].log)[2].payload

\* C15: a factory call records its mode before it tries to open the stream.
\* The step that enters a factory for an unrecorded name records the mode
\* that factory requests; the step in which the open fails returns the
\* transport's error as it is, with no handle and no stream or envelope, and
\* leaves the registry as the entry step made it; and no step changes a
\* recorded mode, so a later call of another shape finds the first one.
C15_RecordedOnAttempt ==
    [][\A t \in Threads :
          /\ (/\ call[t].pc = "idle" /\ call'[t].pc = "getStream"
               /\ call'[t].cli \in SchemaAbsent
               /\ facade[call'[t].cli].modeMap[call'[t].method] = Absent)
              => facade'[call'[t].cli].modeMap[call'[t].method] = Requested(call'[t].op)
          /\ (/\ call[t].pc = "getStream" /\ call'[t].pc = "idle"
               /\ facade[call[t].cli].kStreams)
              => /\ last' = [op |-> call[t].op, cli |-> call[t].cli, h |-> 0,
                             err |-> ErrOpen, resp |-> NoVal,
                             raw |-> <<[c |-> "Stream", err |-> ErrOpen]>>]
                 /\ streams' = streams
                 /\ facade' = facade
                 /\ call[t].cli \in SchemaAbsent =>
                       facade'[call[t].cli].modeMap[call[t].method] # Absent
          /\ \A f \in FacadeIds : \A m \in Methods :
                (facade[f].live /\ facade[f].modeMap[m] # Absent) =>
                    facade'[f].modeMap[m] = facade[f].modeMap[m]]_vars

\* C15 witness: no stream was ever opened, the last call was a
\* NewBidirectionalStreaming whose open failed, and the registry holds the
\* modes of the failed attempts.
C15_Witness ==
    /\ streams = <<>>
    /\ last.op = NewBidirectionalStreamingOp /\ last.err = ErrOpen
    /\ last.cli \in SchemaAbsent
    /\ facade[last.cli].modeMap["m1"] = StreamingServer
    /\ facade[last.cli].modeMap["m2"] = StreamingBidirectional

\* the clients built with IDL information
SchemaBacked == {f \in FacadeIds : facade[f].live /\ HasIDLInfo(facade[f].g)}

\* what the schema says of a name: m1 is declared server-streaming and
\* oneway, no other name is declared
Declared(m) ==
    IF m = "m1"
    THEN [key |-> GenericServerStreamingMethod, oneway |-> TRUE, wrapped |-> TRUE]
    ELSE [key |-> GenericMethodKey, oneway |-> FALSE, wrapped |-> FALSE]

\* C16: a client built with IDL information has no registry and no factory
\* call writes one; the hook it installed resolves a name from the schema
\* alone, to the slot of the declared mode with the declared oneway flag, or
\* to the default unary descriptor when the schema has no such name,
\* whichever factories have been called on it.
C16_SchemaBackedResolve ==
    \A f \in SchemaBacked :
        /\ facade[f].modeMapNil
        /\ facade[f].modeMap = EmptyMap
        /\ \A m \in Methods : GenericMethod(f, m) = Declared(m)

\* C16 witness: NewClientStreaming on a schema-backed client returned a
\* handle for m1, which the schema declares server-streaming and which the
\* handle captured as such.
C16_Witness ==
    \E f \in SchemaBacked : \E h \in Handles({"client"}) :
        /\ streams[h].method = "m1"
        /\ streams[h].methodInfo = Declared("m1")
        /\ GenericMethod(f, "m1") = Declared("m1")
        /\ last.op = NewClientStreamingOp /\ last.cli = f /\ last.h = h

\* C17 (as claimed): on a client-streaming handle no Request Envelope
\* follows an end-of-send on the raw stream.
C17_NoSendAfterClose ==
    \A h \in Handles({"client"}) :
        \A i, j \in 1..Len(streams[h].log) :
            (i < j /\ streams[h].log[i] = EndOfSend) => streams[h].log[j].ev # "send"

\* C17 (amended): the handle keeps no state of its own and leaves the order
\* of calls to the raw stream.  Every Send, before or after a CloseAndRecv,
\* makes exactly one SendMsg and returns its error as it is; when SendMsg
\* fails nothing is written, and when the raw stream accepts it exactly one
\* envelope, with the handle's name and the payload passed, is appended.
C17_SendDelegates ==
    [][\A h \in Handles({"client"}) :
          (/\ last'.op = "Send" /\ last'.h = h
           /\ (last' # last \/ streams'[h] # streams[h]))
          => /\ last'.raw = <<[c |-> "SendMsg", err |-> last'.err]>>
             /\ last'.resp = NoVal
             /\ IF last'.err # NoErr
                THEN streams' = streams
                ELSE /\ Len(streams'[h].log) = Len(streams[h].log) + 1
                     /\ Len(streams'[h].passed) = Len(streams[h].passed) + 1
                     /\ streams'[h].log =
                           Append(streams[h].log,
                                  Envelope(streams[h].method,
                                           streams'[h].passed[Len(streams'[h].passed)]))]_vars

\* C17 witness: a Send succeeded on a handle whose raw stream had already
\* carried the end-of-send.
C17_Witness ==
    \E h \in Handles({"client"}) :
        /\ last.op = "Send" /\ last.h = h /\ last.err = NoErr
        /\ \E i \in 1..Len(streams[h].log) :
              /\ streams[h].log[i] = EndOfSend
              /\ streams[h].log[Len(streams[h].log)].ev = "send"
              /\ i < Len(streams[h].log)

\* the raw calls an operation may make
RawOf(op) ==
    CASE op = "Send"                -> {"SendMsg"}
      [] op = "Recv"                -> {"RecvMsg"}
      [] op = "CloseAndRecv"        -> {"Close", "RecvMsg"}
      [] op = "NewServerStreaming"  -> {"Stream", "SendMsg", "Close"}
      [] op \in {"NewClientStreaming", "NewBidirectionalStreaming"} -> {"Stream"}
      [] OTHER                      -> {}

\* C18: no public call retries or recovers.  The call that returned last
\* made at most one raw call of each kind, all of kinds that belong to it; a
\* raw call that failed is the last one it made, and the call returned that
\* error itself, with no payload and, from a factory, no handle; and when no
\* raw call failed the only errors are those raised before any raw call.
C18_NoRetry ==
    LET raw == last.raw IN
    /\ \A i \in 1..Len(raw) :
          /\ raw[i].c \in RawOf(last.op)
          /\ \A j \in 1..Len(raw) : raw[i].c = raw[j].c => i = j
          /\ raw[i].err # NoErr =>
                /\ i = Len(raw)
                /\ last.err = raw[i].err
                /\ last.resp = NoVal
                /\ last.op \in FactoryOps => last.h = 0
    /\ (last.err # NoErr /\ \A i \in 1..Len(raw) : raw[i].err = NoErr) => raw = <<>>

\* C18 witness: a Recv on a server-streaming handle that had already read a
\* result failed, and returned the error of its one RecvMsg.
C18_Witness ==
    \E h \in Handles({"server"}) :
        /\ last.op = "Recv" /\ last.h = h /\ last.err = ErrRecv
        /\ last.raw = <<[c |-> "RecvMsg", err |-> ErrRecv]>>
        /\ Reads(streams[h].log) >= 1

\* C19 (as claimed): the descriptor a factory of a schema-absent client
\* captured for its handle, seen when the factory has returned the handle or
\* is still setting it up, is not the default unary descriptor, is the slot
\* of the mode the client's registry holds for the handle's name, and is what
\* the client's svcInfo resolves for that name now.
C19_CapturedDescriptor ==
    /\ (last.op \in FactoryOps /\ last.h # 0 /\ last.cli \in SchemaAbsent) =>
          LET st == streams[last.h] IN
          /\ st.methodInfo.key # GenericMethodKey
          /\ facade[last.cli].modeMap[st.method] # Absent
          /\ st.methodInfo.key = SlotOf(facade[last.cli].modeMap[st.method])
          /\ st.methodInfo = MethodInfo(facade[last.cli].svcInfo, st.method)
    /\ \A t \in Threads :
          (call[t].pc \in {"sendMsg", "close"} /\ call[t].cli \in SchemaAbsent) =>
              LET st == streams[call[t].h] IN
              /\ st.methodInfo.key # GenericMethodKey
              /\ facade[call[t].cli].modeMap[st.method] # Absent
              /\ st.methodInfo.key = SlotOf(facade[call[t].cli].modeMap[st.method])
              /\ st.methodInfo = MethodInfo(facade[call[t].cli].svcInfo, st.method)

\* C20: the registry changes only where a factory is entered.  A client
\* that was built stays built; no step removes or replaces an entry; a step
\* that changes a client's registry is the entry of one factory call on that
\* client and adds the one entry for that call's name, with the mode the
\* factory requests; and the steps of resolving a name for a handle and of
\* Send, Recv and CloseAndRecv leave every registry as it was.
C20_RegistryFrame ==
    [][/\ \A f \in FacadeIds :
            facade[f].live =>
              /\ facade'[f].live
              /\ \A m \in Methods :
                    facade[f].modeMap[m] # Absent =>
                        facade'[f].modeMap[m] = facade[f].modeMap[m]
              /\ facade'[f].modeMap # facade[f].modeMap =>
                    \E t \in Threads :
                        /\ call[t].pc = "idle" /\ call'[t].pc = "getStream"
                        /\ call'[t].cli = f
                        /\ call'[t].op \in FactoryOps
                        /\ facade'[f].modeMap =
                              [facade[f].modeMap EXCEPT ![call'[t].method] = Requested(call'[t].op)]
       /\ (\E t \in Threads : call[t].pc = "wrap" /\ call'[t] # call[t]) => facade' = facade
       /\ (/\ last'.op \in {"Send", "Recv", "CloseAndRecv"}
           /\ (last' # last \/ streams' # streams)
           /\ \A t \in Threads : call'[t] = call[t])
          => facade' = facade]_vars

\* C20 witness: with both names recorded, a Recv has returned a result.
C20_Witness ==
    \E f \in SchemaAbsent :
        /\ \A m \in Methods : facade[f].modeMap[m] # Absent
        /\ last.op = "Recv" /\ last.err = NoErr
        /\ \E h \in Handles({"server", "bidi"}) : last.h = h /\ Reads(streams[h].log) >= 1

====
